---- MODULE Spec2Model ----
(***************************************************************************)
(* The image index of the daemon (image/image.go): the in-memory maps      *)
(* ByName and ById of the server's single Index, the index file they are   *)
(* loaded from and saved to, and the operations of Index and Store.        *)
(*                                                                         *)
(* Images are values: the Go code holds *Image pointers, but every load    *)
(* decodes fresh objects, and no operation modelled here writes through a  *)
(* pointer that another map entry can still observe.                       *)
(* Names are drawn from an alphabet without ':', so no name is also an id. *)
(***************************************************************************)
EXTENDS Integers, Sequences, FiniteSets, TLC

\* ---------------------------------------------------------------- bounds
MaxAddTime == 2     \* Created of an image handed to Index.Add: 1..MaxAddTime
MaxOps == 4         \* index operations in one run
MaxSaveFail == 1    \* saves that fail in one run
MaxCalls == 2       \* calls of one client when calls interleave
MaxHistory == 4     \* images in a history handed to History.Del

\* ---------------------------------------------------------------- inputs
Names == {"a", "b"}
LayerX == <<"layers", "x">>         \* a layer path, as its components
LayerY == <<"layers", "y">>
LayerLists == {<<LayerX>>, <<LayerY, LayerX>>}
IndexPath == "index.json"
Nil == [nil |-> TRUE]               \* a nil *Image
SaveOutcomes == {"ok", "openfail", "writefail"}

\* ---------------------------------------------------------------- maps
EmptyMap == [k \in {} |-> Nil]
Put(m, k, v) == [x \in (DOMAIN m) \cup {k} |-> IF x = k THEN v ELSE m[x]]
Remove(m, k) == [x \in (DOMAIN m) \ {k} |-> m[x]]

\* ---------------------------------------------------------------- image ids
\* path.Base of a layer path: its last component.
Base(layer) == layer[Len(layer)]

RECURSIVE ConcatBases(_)
ConcatBases(layers) ==
    IF layers = <<>> THEN ""
    ELSE Base(Head(layers)) \o ConcatBases(Tail(layers))

\* future.ComputeId: the digest of a string (an injective tag here).
ComputeId(s) == "#" \o s

\* generateImageId; with no layers it returns the id "" and an error.
generateImageId(name, layers) ==
    IF Len(layers) = 0 THEN ""
    ELSE LET hash == IF Len(layers) = 1 THEN Base(layers[1])
                     ELSE ComputeId(ConcatBases(layers))
         IN  name \o ":" \o hash

\* NewImage that leaves the Parent field empty.
NewImage_NoParent(name, layers, parent, t) ==
    IF generateImageId(name, layers) = "" THEN Nil
    ELSE [Id |-> generateImageId(name, layers), Layers |-> layers,
          Created |-> t, Parent |-> ""]

\* NewImage at wall-clock time t; Nil when generateImageId fails.
NewImage(name, layers, parent, t) ==
    IF generateImageId(name, layers) = "" THEN Nil
    ELSE [Id |-> generateImageId(name, layers), Layers |-> layers,
          Created |-> t, Parent |-> parent]

\* ---------------------------------------------------------------- History
\* Less with its operands exchanged: the oldest image sorts first.
Less_OldestFirst(h, i, j) == h[i].Created < h[j].Created

\* History.Less(i, j): images[j].Created.Before(images[i].Created)
Less(h, i, j) == h[j].Created < h[i].Created

Swap(h, i, j) == [h EXCEPT ![i] = h[j], ![j] = h[i]]

\* sort.Sort on a short slice is an insertion sort over Less and Swap.
RECURSIVE Sift(_, _)
Sift(h, j) ==
    IF j > 1 /\ Less(h, j, j - 1) THEN Sift(Swap(h, j, j - 1), j - 1) ELSE h

RECURSIVE InsertionSort(_, _)
InsertionSort(h, i) ==
    IF i > Len(h) THEN h ELSE InsertionSort(Sift(h, i), i + 1)

\* History.Add without its sort: the image stays where append put it.
HistoryAdd_NoSort(h, image) == Append(h, image)

\* History.Add: append, then sort.
HistoryAdd(h, image) == InsertionSort(Append(h, image), 2)

\* History.Del. The range statement reads the slice header once: the loop
\* visits the indexes of the n elements the history had at the start and
\* reads each from the backing array arr as it is then. A match at idx
\* (counted from 1) re-slices the history as it is now, of length m: with
\* idx > m the expression (*history)[idx+1:] panics (slice bounds out of
\* range); otherwise append moves the elements after idx down by one in
\* place, leaving the old last element in the array, and m drops by one.
\* The result is [history, ret].
RECURSIVE DelLoop(_, _, _, _)
DelLoop(arr, m, idx, id) ==
    IF idx > Len(arr) THEN [history |-> SubSeq(arr, 1, m), ret |-> "ok"]
    ELSE IF arr[idx].Id # id THEN DelLoop(arr, m, idx + 1, id)
    ELSE IF idx > m THEN [history |-> SubSeq(arr, 1, m), ret |-> "panic"]
    ELSE DelLoop([k \in 1..Len(arr) |->
                    IF k >= idx /\ k < m THEN arr[k + 1] ELSE arr[k]],
                 m - 1, idx + 1, id)

HistoryDel(h, id) == DelLoop(h, Len(h), 1, id)

\* ---------------------------------------------------------------- the file
Missing == [kind |-> "missing"]
Partial == [kind |-> "partial"]     \* truncated or partly written bytes

FormatTime(t) == <<"RFC3339Nano", t>>
ParseTime(s) == s[2]

EncImage(i) == [Id |-> i.Id, Layers |-> i.Layers,
                Created |-> FormatTime(i.Created), Parent |-> i.Parent]
DecImage(e) == [Id |-> e.Id, Layers |-> e.Layers,
                Created |-> ParseTime(e.Created), Parent |-> e.Parent]
EncHistory(h) == [k \in 1..Len(h) |-> EncImage(h[k])]

\* A decoder that reads the array of a history from its end.
DecHistory_Reversed(a) == [k \in 1..Len(a) |-> DecImage(a[Len(a) + 1 - k])]

DecHistory(a) == [k \in 1..Len(a) |-> DecImage(a[k])]

\* json.Marshal(index): each map becomes a JSON object, key -> encoded value.
Marshal(idx) ==
    [kind |-> "doc",
     Path |-> IndexPath,
     ByName |-> [n \in DOMAIN idx.ByName |-> EncHistory(idx.ByName[n])],
     ById |-> [i \in DOMAIN idx.ById |-> EncImage(idx.ById[i])]]

\* json.Unmarshal into a map that exists: the map is reused; each member of
\* the JSON object replaces the entry of its key and every other entry stays.
UnmarshalHistories(m, object) ==
    [k \in (DOMAIN m) \cup (DOMAIN object) |->
        IF k \in DOMAIN object THEN DecHistory(object[k]) ELSE m[k]]

UnmarshalImages(m, object) ==
    [k \in (DOMAIN m) \cup (DOMAIN object) |->
        IF k \in DOMAIN object THEN DecImage(object[k]) ELSE m[k]]

\* Index.load: [err, idx]. A missing file is no error and changes nothing;
\* bytes that are no JSON document are an error and change nothing.
Load(idx, f) ==
    CASE f.kind = "missing" -> [err |-> FALSE, idx |-> idx]
      [] f.kind = "partial" -> [err |-> TRUE, idx |-> idx]
      [] f.kind = "doc" ->
            [err |-> FALSE,
             idx |-> [ByName |-> UnmarshalHistories(idx.ByName, f.ByName),
                      ById |-> UnmarshalImages(idx.ById, f.ById)]]

\* Index.Path after index.load() on an index whose Path is path: Unmarshal
\* stores the Path member of the document, and load, when Unmarshal returned
\* no error, puts back the value it read before.
LoadPath(path, f) ==
    LET unmarshalled == IF f.kind = "doc" THEN f.Path ELSE path
    IN  IF Load([ByName |-> EmptyMap, ById |-> EmptyMap], f).err
        THEN unmarshalled ELSE path

\* ioutil.WriteFile under outcome o: the open (with O_TRUNC) fails and the
\* file is untouched, or a write fails after the truncation, or all succeeds.
WriteFile(f, doc, o) ==
    CASE o = "ok" -> doc
      [] o = "openfail" -> f
      [] o = "writefail" -> Partial

\* Index.save: [err, file].
Save(idx, f, o) == [err |-> o # "ok", file |-> WriteFile(f, Marshal(idx), o)]

\* ---------------------------------------------------------------- Index
NewIndex == [ByName |-> EmptyMap, ById |-> EmptyMap]

\* The lookups of Index.Find after its load.
Lookup(idx, idOrName) ==
    IF idOrName \in DOMAIN idx.ById THEN idx.ById[idOrName]
    ELSE IF idOrName \in DOMAIN idx.ByName /\ Len(idx.ByName[idOrName]) > 0
         THEN idx.ByName[idOrName][1]
    ELSE Nil

\* Index.Find: [idx, img]; the load changes the maps, img is Nil for absent.
Find(idx, f, idOrName) ==
    LET l == Load(idx, f)
    IN  IF l.err THEN [idx |-> l.idx, img |-> Nil]
        ELSE [idx |-> l.idx, img |-> Lookup(l.idx, idOrName)]

\* Index.Add between its load and its save: [idx, ret, dup]. ret is "save"
\* (go on to save), "ok" (the duplicate-top return, dup is TRUE) or "panic"
\* (element 0 of an empty history).
AddInMemory(idx, name, image) ==
    LET exists == name \in DOMAIN idx.ByName
        h0 == IF exists THEN idx.ByName[name] ELSE <<>>
    IN  IF exists /\ Len(h0) = 0
        THEN [idx |-> idx, ret |-> "panic", dup |-> FALSE]
        ELSE IF exists /\ h0[1].Id = image.Id
        THEN [idx |-> idx, ret |-> "ok", dup |-> TRUE]
        ELSE [idx |-> [ByName |-> Put(idx.ByName, name, HistoryAdd(h0, image)),
                       ById |-> Put(idx.ById, image.Id, image)],
              ret |-> "save", dup |-> FALSE]

\* The common frame of the mutating methods of Index: l is what the load
\* returned, r what the method did to the loaded maps, o the outcome of the
\* save: [idx, file, ret, dup, fails]; fails counts the saves that failed.
LoadMutateSave(l, r, f, o) ==
    LET s == Save(r.idx, f, o)
    IN  IF l.err
        THEN [idx |-> l.idx, file |-> f, ret |-> "err", dup |-> FALSE, fails |-> 0]
        ELSE IF r.ret # "save"
        THEN [idx |-> r.idx, file |-> f, ret |-> r.ret, dup |-> r.dup, fails |-> 0]
        ELSE [idx |-> r.idx, file |-> s.file,
              ret |-> IF s.err THEN "err" ELSE "ok", dup |-> FALSE,
              fails |-> IF s.err THEN 1 ELSE 0]

\* Index.Add under save outcome o.
IndexAdd(idx, f, name, image, o) ==
    LET l == Load(idx, f)
    IN  LoadMutateSave(l, AddInMemory(l.idx, name, image), f, o)

\* Store.Create at time t: [idx, file, ret, dup, fails, img].
StoreCreate(idx, f, name, source, layers, t, o) ==
    LET image == NewImage(name, layers, source, t)
        a == IndexAdd(idx, f, name, image, o)
    IN  IF image = Nil
        THEN [idx |-> idx, file |-> f, ret |-> "err", dup |-> FALSE,
              fails |-> 0, img |-> Nil]
        ELSE [idx |-> a.idx, file |-> a.file, ret |-> a.ret, dup |-> a.dup,
              fails |-> a.fails, img |-> IF a.ret = "ok" THEN image ELSE Nil]

\* Index.Copy at time t, o1 the outcome of the save inside Add and o2 that
\* of Copy's own save: [idx, file, ret, dup, fails, img].
IndexCopy(idx, f, srcNameOrId, dstName, t, o1, o2) ==
    LET l == Load(idx, f)
        fr == Find(l.idx, f, srcNameOrId)
        src == fr.img
        dst == NewImage(dstName, src.Layers, src.Id, t)
        a == IndexAdd(fr.idx, f, dstName, dst, o1)
        s == Save(a.idx, a.file, o2)
        fail(i, fl, n) == [idx |-> i, file |-> fl, ret |-> "err", dup |-> FALSE,
                           fails |-> n, img |-> Nil]
    IN  IF srcNameOrId = "" \/ dstName = "" THEN fail(idx, f, 0)
        ELSE IF l.err THEN fail(l.idx, f, 0)
        ELSE IF src = Nil THEN fail(fr.idx, f, 0)
        ELSE IF dst = Nil THEN fail(fr.idx, f, 0)
        ELSE IF a.ret # "ok"
        THEN [idx |-> a.idx, file |-> a.file, ret |-> a.ret, dup |-> FALSE,
              fails |-> a.fails, img |-> Nil]
        ELSE IF s.err THEN fail(a.idx, s.file, 1)
        ELSE [idx |-> a.idx, file |-> s.file, ret |-> "ok", dup |-> a.dup,
              fails |-> 0, img |-> dst]

\* Index.Rename without its loop: the images keep the ids of the old name.
RenameLoop_KeepIds(idx, newName, k) == [err |-> FALSE, idx |-> idx]

\* The loop of Index.Rename from entry k of the history now under newName:
\* give the entry its new id, file it in ById under it, drop the old key.
\* [err, idx]; err when generateImageId fails, the earlier entries done.
RECURSIVE RenameLoop(_, _, _)
RenameLoop(idx, newName, k) ==
    IF k > Len(idx.ByName[newName]) THEN [err |-> FALSE, idx |-> idx]
    ELSE LET image == idx.ByName[newName][k]
             id == generateImageId(newName, image.Layers)
             renamed == [image EXCEPT !.Id = id]
         IN  IF id = "" THEN [err |-> TRUE, idx |-> idx]
             ELSE RenameLoop(
                    [ByName |-> [idx.ByName EXCEPT ![newName][k] = renamed],
                     ById |-> Remove(Put(idx.ById, id, renamed), image.Id)],
                    newName, k + 1)

\* Index.Rename between its load and its save: [idx, ret, dup].
RenameInMemory(idx, oldName, newName) ==
    LET moved == [ByName |-> Remove(Put(idx.ByName, newName, idx.ByName[oldName]),
                                    oldName),
                  ById |-> idx.ById]
        r == RenameLoop(moved, newName, 1)
    IN  IF oldName \notin DOMAIN idx.ByName
        THEN [idx |-> idx, ret |-> "err", dup |-> FALSE]
        ELSE IF newName \in DOMAIN idx.ByName
        THEN [idx |-> idx, ret |-> "err", dup |-> FALSE]
        ELSE [idx |-> r.idx, ret |-> IF r.err THEN "err" ELSE "save", dup |-> FALSE]

\* Index.Rename under save outcome o.
IndexRename(idx, f, oldName, newName, o) ==
    LET l == Load(idx, f)
    IN  LoadMutateSave(l, RenameInMemory(l.idx, oldName, newName), f, o)

\* The ids of the images of a history.
HistoryIds(h) == {h[k].Id : k \in 1..Len(h)}

\* Removing the images of a name but not the name: its history stays, empty.
RemoveName_KeepName(idx, name) ==
    [ByName |-> Put(idx.ByName, name, <<>>),
     ById |-> [i \in (DOMAIN idx.ById) \ HistoryIds(idx.ByName[name]) |-> idx.ById[i]]]

\* Removing a name: its images leave ById, the name leaves ByName.
RemoveName(idx, name) ==
    [ByName |-> Remove(idx.ByName, name),
     ById |-> [i \in (DOMAIN idx.ById) \ HistoryIds(idx.ByName[name]) |-> idx.ById[i]]]

\* Index.Delete between its load and its save: [idx, ret, dup].
DeleteInMemory(idx, name) ==
    IF name \notin DOMAIN idx.ByName
    THEN [idx |-> idx, ret |-> "err", dup |-> FALSE]
    ELSE [idx |-> RemoveName(idx, name), ret |-> "save", dup |-> FALSE]

\* Index.Delete under save outcome o.
IndexDelete(idx, f, name, o) ==
    LET l == Load(idx, f)
    IN  LoadMutateSave(l, DeleteInMemory(l.idx, name), f, o)

\* regexp.MatchString on the patterns of the model: "(" does not compile,
\* "a" matches a name holding an a, "." a name of at least one character.
Patterns == {"a", ".", "("}
PatternCompiles(pattern) == pattern # "("
MatchString(pattern, name) ==
    CASE pattern = "a" -> name = "a"
      [] pattern = "." -> name # ""
      [] OTHER -> FALSE

RECURSIVE RemoveNames(_, _)
RemoveNames(idx, names) ==
    IF names = {} THEN idx
    ELSE LET n == CHOOSE x \in names : TRUE
         IN  RemoveNames(RemoveName(idx, n), names \ {n})

\* Index.DeleteMatch between its load and its save: [idx, ret, dup]. The
\* pattern is compiled inside the loop over ByName, once per name, so with
\* no name in the index a pattern that does not compile is no error.
DeleteMatchInMemory(idx, pattern) ==
    LET matching == {n \in DOMAIN idx.ByName : MatchString(pattern, n)}
    IN  IF DOMAIN idx.ByName # {} /\ ~PatternCompiles(pattern)
        THEN [idx |-> idx, ret |-> "err", dup |-> FALSE]
        ELSE [idx |-> RemoveNames(idx, matching), ret |-> "save", dup |-> FALSE]

\* Index.DeleteMatch under save outcome o.
IndexDeleteMatch(idx, f, pattern, o) ==
    LET l == Load(idx, f)
    IN  LoadMutateSave(l, DeleteMatchInMemory(l.idx, pattern), f, o)

\* sort.Strings over the names of the model.
NameOrder == <<"", "a", "b">>
SortStrings(names) == SelectSeq(NameOrder, LAMBDA n : n \in names)

\* Index.Names: [idx, names].
IndexNames(idx, f) ==
    LET l == Load(idx, f)
    IN  IF l.err THEN [idx |-> l.idx, names |-> <<>>]
        ELSE [idx |-> l.idx, names |-> SortStrings(DOMAIN l.idx.ByName)]

\* ---------------------------------------------------------------- state
VARIABLES
    ByName,     \* Index.ByName of the server's index: name -> history
    ById,       \* Index.ById: id -> image
    file,       \* the index file: Missing, Partial or a document
    now,        \* the wall clock: each NewImage reads a later time
    last,       \* the last call and what it returned
    nops,       \* calls made so far
    saveFails,  \* saves that have failed so far
    procs,      \* per client connection: the call its goroutine is in
    crashed,    \* the daemon has crashed and been started again
    containers, \* the runtime's containers: id -> record
    req,        \* the attach or run request being served: flags, position
    tasks,      \* the copy tasks of that request, per stream
    conn,       \* the client's end of the connection of that request
    pipes       \* the stdin, stdout and stderr of the request's container

vars == <<ByName, ById, file, now, last, nops, saveFails, procs, crashed,
          containers, req, tasks, conn, pipes>>

\* What the calls of the index and of the store leave alone.
plane == <<req, tasks, conn, pipes>>

Index == [ByName |-> ByName, ById |-> ById]

NameArgs == Names \cup {""}
AllIds == {generateImageId(n, l) : n \in Names, l \in LayerLists}

\* The images handed to Index.Add(name, image) directly: any creation time
\* under an id made from name, and one whose id is made from another name.
OtherName(name) == CHOOSE n \in Names : n # name
AddImages(name) ==
    {[Id |-> generateImageId(n, <<LayerX>>), Layers |-> <<LayerX>>,
      Created |-> t, Parent |-> ""] :
        n \in {name}, t \in 1..MaxAddTime}
    \cup {[Id |-> generateImageId(OtherName(name), <<LayerX>>), Layers |-> <<LayerX>>,
           Created |-> 1, Parent |-> ""]}

\* The client connections, each served by its own goroutine on the one index.
Clients == {1, 2}
Idle(calls, ret) ==
    [pc |-> "idle", op |-> "none", name |-> "", arg |-> "", doc |-> Missing,
     ret |-> ret, calls |-> calls]

Call(op, name, arg, ret, out, dup) ==
    [op |-> op, name |-> name, arg |-> arg, ret |-> ret, out |-> out, dup |-> dup]

\* No request yet, and no copy task.
Streams == {"stdin", "stdout", "stderr"}
NoRequest == [verb |-> "none", pc |-> "idle", ret |-> "none", container |-> "",
              i |-> FALSE, o |-> FALSE, e |-> FALSE, opened |-> {}, starts |-> 0]
NoTasks == [s \in Streams |-> "none"]

Init ==
    /\ ByName = EmptyMap
    /\ ById = EmptyMap
    /\ file = Missing
    /\ now = 1
    /\ last = Call("new", "", "", "ok", Nil, FALSE)
    /\ nops = 0
    /\ saveFails = 0
    /\ procs = [c \in Clients |-> Idle(0, "none")]
    /\ crashed = FALSE
    /\ containers = EmptyMap
    /\ req = NoRequest
    /\ tasks = NoTasks
    /\ conn = [open |-> TRUE, stdin |-> "open"]
    /\ pipes = [stdin |-> "open", stdout |-> "empty", stderr |-> "empty"]

\* The number of failed saves among the outcomes chosen for a call.
Failed(outcomes) == Cardinality({k \in DOMAIN outcomes : outcomes[k] # "ok"})

\* What every call does to the index, the file and the counters. A failing
\* outcome is chosen only for a save that the call reaches.
IndexBecomes(r, outcomes) ==
    /\ nops < MaxOps
    /\ saveFails + Failed(outcomes) <= MaxSaveFail
    /\ r.fails = Failed(outcomes)
    /\ ByName' = r.idx.ByName
    /\ ById' = r.idx.ById
    /\ file' = r.file
    /\ nops' = nops + 1
    /\ saveFails' = saveFails + r.fails
    /\ UNCHANGED <<procs, crashed>>

\* A call of the index or the store on its own: no container is touched.
Becomes(r, outcomes) ==
    /\ IndexBecomes(r, outcomes)
    /\ UNCHANGED <<containers, plane>>

\* Index.Add(name, image)
Add(name, image, o) ==
    LET r == IndexAdd(Index, file, name, image, o)
    IN  /\ Becomes(r, <<o>>)
        /\ last' = Call("add", name, image, r.ret, Nil, r.dup)
        /\ UNCHANGED now

\* Store.Create(name, "", layers...); NewImage reads the clock.
Create(name, layers, o) ==
    LET r == StoreCreate(Index, file, name, "", layers, now, o)
    IN  /\ Becomes(r, <<o>>)
        /\ last' = Call("create", name, layers, r.ret, r.img, r.dup)
        /\ now' = now + 1

\* Index.Copy(srcNameOrId, dstName)
Copy(src, dst, o1, o2) ==
    LET r == IndexCopy(Index, file, src, dst, now, o1, o2)
    IN  /\ Becomes(r, <<o1, o2>>)
        /\ last' = Call("copy", dst, src, r.ret, r.img, r.dup)
        /\ now' = now + 1

\* Index.Rename(oldName, newName)
Rename(oldName, newName, o) ==
    LET r == IndexRename(Index, file, oldName, newName, o)
    IN  /\ Becomes(r, <<o>>)
        /\ last' = Call("rename", oldName, newName, r.ret, Nil, FALSE)
        /\ UNCHANGED now

\* Index.Delete(name)
Delete(name, o) ==
    LET r == IndexDelete(Index, file, name, o)
    IN  /\ Becomes(r, <<o>>)
        /\ last' = Call("delete", name, "", r.ret, Nil, FALSE)
        /\ UNCHANGED now

\* Index.DeleteMatch(pattern)
DeleteMatch(pattern, o) ==
    LET r == IndexDeleteMatch(Index, file, pattern, o)
    IN  /\ Becomes(r, <<o>>)
        /\ last' = Call("deleteMatch", "", pattern, r.ret, Nil, FALSE)
        /\ UNCHANGED now

\* Index.Find(idOrName)
FindCall(idOrName) ==
    LET r == Find(Index, file, idOrName)
    IN  /\ Becomes([idx |-> r.idx, file |-> file, fails |-> 0], <<>>)
        /\ last' = Call("find", idOrName, "", "ok", r.img, FALSE)
        /\ UNCHANGED now

\* Index.Names()
NamesCall ==
    LET r == IndexNames(Index, file)
    IN  /\ Becomes([idx |-> r.idx, file |-> file, fails |-> 0], <<>>)
        /\ last' = Call("names", "", "", "ok", r.names, FALSE)
        /\ UNCHANGED now

\* The calls that go through Store and the other methods of Index.
NextStore ==
    \/ \E n \in Names, l \in LayerLists \cup {<<>>}, o \in SaveOutcomes : Create(n, l, o)
    \/ \E s \in NameArgs \cup AllIds, d \in NameArgs, o1, o2 \in SaveOutcomes :
            Copy(s, d, o1, o2)
    \/ \E a, b \in Names, o \in SaveOutcomes : Rename(a, b, o)
    \/ \E n \in Names, o \in SaveOutcomes : Delete(n, o)
    \/ \E p \in Patterns, o \in SaveOutcomes : DeleteMatch(p, o)
    \/ \E k \in Names \cup AllIds : FindCall(k)
    \/ NamesCall

\* Every call, Index.Add with an image of the caller's own included.
Next ==
    \/ \E n \in Names, o \in SaveOutcomes : \E i \in AddImages(n) : Add(n, i, o)
    \/ NextStore

Spec == Init /\ [][Next]_vars

SpecStore == Init /\ [][NextStore]_vars

\* The calls of Index and Store with every name argument, the empty string
\* included, every save succeeding.
NextArgs ==
    \/ \E n \in NameArgs : \E i \in AddImages(n) : Add(n, i, "ok")
    \/ \E n \in NameArgs, l \in LayerLists : Create(n, l, "ok")
    \/ \E s, d \in NameArgs : Copy(s, d, "ok", "ok")
    \/ \E a, b \in NameArgs : Rename(a, b, "ok")
    \/ \E n \in NameArgs : Delete(n, "ok")

SpecArgs == Init /\ [][NextArgs]_vars

\* ---------------------------------------------------------------- steps
\* The same methods taken one step at a time, as the goroutines of two
\* connections run them on the shared index with no lock: the call, its
\* load, its work on the maps, json.Marshal, and the two halves of
\* ioutil.WriteFile (the open that truncates, the write of the bytes).
\* Each step is atomic here; the Go maps themselves are not synchronized.
StepCalls ==
    {[op |-> "create", name |-> n, arg |-> l] : n \in Names, l \in LayerLists}
    \cup {[op |-> "delete", name |-> n, arg |-> ""] : n \in Names}
    \cup {[op |-> "rename", name |-> n, arg |-> OtherName(n)] : n \in Names}

\* What the call of p does to the maps between its load and its save.
InMemory(idx, p) ==
    CASE p.op = "create" -> AddInMemory(idx, p.name, p.arg)
      [] p.op = "delete" -> DeleteInMemory(idx, p.name)
      [] p.op = "rename" -> RenameInMemory(idx, p.name, p.arg)

StepFrame == UNCHANGED <<last, nops, saveFails, crashed, containers, plane>>

\* A client calls Store.Create, Index.Delete or Index.Rename; Create builds
\* its image (NewImage reads the clock) before Index.Add is entered.
Begin(c, call) ==
    /\ procs[c].pc = "idle"
    /\ procs[c].calls < MaxCalls
    /\ procs' = [procs EXCEPT ![c] =
            [pc |-> "called", op |-> call.op, name |-> call.name,
             arg |-> IF call.op = "create"
                     THEN NewImage(call.name, call.arg, "", now) ELSE call.arg,
             doc |-> Missing, ret |-> "none", calls |-> procs[c].calls + 1]]
    /\ now' = IF call.op = "create" THEN now + 1 ELSE now
    /\ UNCHANGED <<ByName, ById, file>>
    /\ StepFrame

\* index.load()
LoadStep(c) ==
    LET l == Load(Index, file)
    IN  /\ procs[c].pc = "called"
        /\ ByName' = l.idx.ByName
        /\ ById' = l.idx.ById
        /\ procs' = [procs EXCEPT ![c] =
                IF l.err THEN Idle(procs[c].calls, "err")
                ELSE [procs[c] EXCEPT !.pc = "loaded"]]
        /\ UNCHANGED <<file, now>>
        /\ StepFrame

\* The checks and the changes of the maps, up to the call of index.save().
MutateStep(c) ==
    LET r == InMemory(Index, procs[c])
    IN  /\ procs[c].pc = "loaded"
        /\ ByName' = r.idx.ByName
        /\ ById' = r.idx.ById
        /\ procs' = [procs EXCEPT ![c] =
                IF r.ret = "save" THEN [procs[c] EXCEPT !.pc = "mutated"]
                ELSE Idle(procs[c].calls, r.ret)]
        /\ UNCHANGED <<file, now>>
        /\ StepFrame

\* index.save(): json.Marshal(index)
MarshalStep(c) ==
    /\ procs[c].pc = "mutated"
    /\ procs' = [procs EXCEPT ![c] =
            [procs[c] EXCEPT !.pc = "marshalled", !.doc = Marshal(Index)]]
    /\ UNCHANGED <<ByName, ById, file, now>>
    /\ StepFrame

\* ioutil.WriteFile: the file is opened with O_TRUNC
OpenStep(c) ==
    /\ procs[c].pc = "marshalled"
    /\ file' = Partial
    /\ procs' = [procs EXCEPT ![c] = [procs[c] EXCEPT !.pc = "opened"]]
    /\ UNCHANGED <<ByName, ById, now>>
    /\ StepFrame

\* ioutil.WriteFile: the bytes are written and the call returns
WriteStep(c) ==
    /\ procs[c].pc = "opened"
    /\ file' = procs[c].doc
    /\ procs' = [procs EXCEPT ![c] =
            [Idle(procs[c].calls, "ok") EXCEPT
                !.op = procs[c].op, !.name = procs[c].name, !.arg = procs[c].arg]]
    /\ UNCHANGED <<ByName, ById, now>>
    /\ StepFrame

\* The daemon dies and is started again: a new Index, the file as it was.
Crash ==
    /\ ~crashed
    /\ \E c \in Clients : procs[c].pc # "idle"
    /\ crashed' = TRUE
    /\ ByName' = EmptyMap
    /\ ById' = EmptyMap
    /\ procs' = [c \in Clients |->
            IF procs[c].pc = "idle" THEN procs[c] ELSE Idle(procs[c].calls, "crash")]
    /\ UNCHANGED <<file, now, last, nops, saveFails, containers, plane>>

NextSteps ==
    \/ \E c \in Clients, call \in StepCalls : Begin(c, call)
    \/ \E c \in Clients : LoadStep(c)
    \/ \E c \in Clients : MutateStep(c)
    \/ \E c \in Clients : MarshalStep(c)
    \/ \E c \in Clients : OpenStep(c)
    \/ \E c \in Clients : WriteStep(c)
    \/ Crash

SpecSteps == Init /\ [][NextSteps]_vars

\* ---------------------------------------------------------------- server
\* The verbs of the server that work on the store and on the runtime, each
\* taken whole, with the calls of the runtime and of the layer store as the
\* interfaces used by the server show them: each may fail.
NewLayers == {LayerX, LayerY}       \* the layers LayerStore.AddLayer returns
NoLayer == <<>>                     \* AddLayer returned an error
ContainerIds == {"c1", "c2"}        \* future.RandomId()[:8]
CreateOutcomes == {"ok", "createfail", "imagefail", "commentfail"}

\* Store.Import with the new layer put after the layers of the parent.
StoreImport_ParentFirst(idx, f, name, layer, parent, t, o) ==
    LET layers == IF parent # Nil THEN parent.Layers \o <<layer>> ELSE <<layer>>
        parentId == IF parent # Nil THEN parent.Id ELSE ""
    IN  IF layer = NoLayer
        THEN [idx |-> idx, file |-> f, ret |-> "err", dup |-> FALSE,
              fails |-> 0, img |-> Nil]
        ELSE StoreCreate(idx, f, name, parentId, layers, t, o)

\* Store.Import at time t, layer being what Layers.AddLayer(archive) returned:
\* [idx, file, ret, dup, fails, img].
StoreImport(idx, f, name, layer, parent, t, o) ==
    LET layers == IF parent # Nil THEN <<layer>> \o parent.Layers ELSE <<layer>>
        parentId == IF parent # Nil THEN parent.Id ELSE ""
    IN  IF layer = NoLayer
        THEN [idx |-> idx, file |-> f, ret |-> "err", dup |-> FALSE,
              fails |-> 0, img |-> Nil]
        ELSE StoreCreate(idx, f, name, parentId, layers, t, o)

\* The runtime as the server calls it, cs being its containers by id:
\* [containers, err]. Destroy refuses a running container and otherwise
\* removes it from the list.
Destroy(cs, id) ==
    IF cs[id].state = "running"
    THEN [containers |-> cs, err |-> TRUE]
    ELSE [containers |-> Remove(cs, id), err |-> FALSE]

\* Container.Kill and Container.Stop end a running process and fail on a
\* container that is not running.
Kill(cs, id) ==
    IF cs[id].state # "running"
    THEN [containers |-> cs, err |-> TRUE]
    ELSE [containers |-> [cs EXCEPT ![id].state = "exited"], err |-> FALSE]

Stop(cs, id) == Kill(cs, id)

\* Container.Start fails on a running container and when the launcher
\* fails (ok is false); otherwise the process runs.
Start(cs, id, ok) ==
    IF cs[id].state = "running" \/ ~ok
    THEN [containers |-> cs, err |-> TRUE]
    ELSE [containers |-> [cs EXCEPT ![id].state = "running"], err |-> FALSE]

\* Server.CreateContainer under id: [containers, err]. The container is
\* created over the layers of the image and given the id of the image as
\* user data "image" and a comment as user data "comment" (comment tells
\* whether it is set); when a SetUserData fails it is destroyed again.
CreateContainer(cs, img, id, outcome) ==
    LET created == Put(cs, id, [image |-> "", comment |-> FALSE,
                                layers |-> img.Layers, state |-> "created"])
        withImage == [created EXCEPT ![id].image = img.Id]
        withBoth == [withImage EXCEPT ![id].comment = TRUE]
    IN  CASE outcome = "createfail" -> [containers |-> cs, err |-> TRUE]
          [] outcome = "imagefail" ->
                [containers |-> Destroy(created, id).containers, err |-> TRUE]
          [] outcome = "commentfail" ->
                [containers |-> Destroy(withImage, id).containers, err |-> TRUE]
          [] outcome = "ok" -> [containers |-> withBoth, err |-> FALSE]

\* The loop of CmdRmi over its arguments, os the outcomes of the saves:
\* [idx, file, ret, fails]. It stops at the first argument that fails.
RECURSIVE RmiLoop(_, _, _, _, _)
RmiLoop(idx, f, args, regexp, os) ==
    IF args = <<>> THEN [idx |-> idx, file |-> f, ret |-> "ok", fails |-> 0]
    ELSE LET name == Head(args)
             fr == Find(idx, f, name)
             d == IF regexp THEN IndexDeleteMatch(idx, f, name, Head(os))
                  ELSE IndexDelete(fr.idx, f, name, Head(os))
             rest == RmiLoop(d.idx, d.file, Tail(args), regexp, Tail(os))
         IN  IF ~regexp /\ fr.img = Nil
             THEN [idx |-> fr.idx, file |-> f, ret |-> "err", fails |-> 0]
             ELSE IF d.ret # "ok"
             THEN [idx |-> d.idx, file |-> d.file, ret |-> "err", fails |-> d.fails]
             ELSE [rest EXCEPT !.fails = @ + d.fails]

RmiArgs == {<<>>, <<"a">>, <<"b">>, <<"a", "b">>}
RmiPatterns == {<<p>> : p \in Patterns}

\* CmdRmi: 'rmi NAME...' and 'rmi -r PATTERN...'
CmdRmi(args, regexp, os) ==
    LET r == RmiLoop(Index, file, args, regexp, os)
    IN  /\ Len(os) = Len(args)
        /\ IF Len(args) < 1
           THEN /\ IndexBecomes([idx |-> Index, file |-> file, fails |-> 0], os)
                /\ last' = Call("rmi", "", args, "usage", Nil, FALSE)
           ELSE /\ IndexBecomes(r, os)
                /\ last' = Call("rmi", Head(args), args, r.ret, Nil, FALSE)
        /\ UNCHANGED <<now, containers, plane>>

\* CmdPut: 'put NAME' imports the archive on stdin with no parent.
CmdPut(name, layer, o) ==
    LET r == StoreImport(Index, file, name, layer, Nil, now, o)
    IN  /\ IF name = ""
           THEN /\ IndexBecomes([idx |-> Index, file |-> file, fails |-> 0], <<o>>)
                /\ last' = Call("put", name, layer, "err", Nil, FALSE)
           ELSE /\ IndexBecomes(r, <<o>>)
                /\ last' = Call("put", name, layer, r.ret, r.img, r.dup)
        /\ now' = now + 1
        /\ UNCHANGED <<containers, plane>>

\* CmdRun with a command line and neither -a nor -i: find the image (the
\* empty name stands for "base"), create the container, start it.
CmdRunDetached(name, id, co, startOk) ==
    LET n == IF name = "" THEN "base" ELSE name
        fr == Find(Index, file, n)
        cc == CreateContainer(containers, fr.img, id, co)
    IN  /\ id \notin DOMAIN containers
        /\ IndexBecomes([idx |-> fr.idx, file |-> file, fails |-> 0], <<>>)
        /\ IF fr.img = Nil
           THEN /\ containers' = containers
                /\ last' = Call("run", n, "", "err", Nil, FALSE)
           ELSE IF cc.err
           THEN /\ containers' = cc.containers
                /\ last' = Call("run", n, "", "err", Nil, FALSE)
           ELSE /\ containers' = [cc.containers EXCEPT
                        ![id].state = IF startOk THEN "running" ELSE "created"]
                /\ last' = Call("run", n, id, IF startOk THEN "ok" ELSE "err",
                                fr.img, FALSE)
        /\ UNCHANGED <<now, plane>>

\* CmdCommit: 'commit CONTAINER DEST'. The changes of the container are
\* tarred, the image named in its user data is looked up, and the archive is
\* imported under DEST with that image as parent.
CmdCommit(containerName, imgName, tarOk, layer, o) ==
    LET fr == Find(Index, file, containers[containerName].image)
        r == StoreImport(fr.idx, file, imgName, layer, fr.img, now, o)
        arg == [container |-> containerName, layer |-> layer]
        same == [idx |-> Index, file |-> file, fails |-> 0]
    IN  /\ IF containerName = "" \/ imgName = ""
           THEN /\ IndexBecomes(same, <<o>>)
                /\ last' = Call("commit", imgName, arg, "usage", Nil, FALSE)
           ELSE IF containerName \notin DOMAIN containers
           THEN /\ IndexBecomes(same, <<o>>)
                /\ last' = Call("commit", imgName, arg, "err", Nil, FALSE)
           ELSE IF ~tarOk
           THEN /\ IndexBecomes(same, <<o>>)
                /\ last' = Call("commit", imgName, arg, "err", Nil, FALSE)
           ELSE /\ IndexBecomes(r, <<o>>)
                /\ last' = Call("commit", imgName, arg, r.ret, r.img, r.dup)
        /\ now' = now + 1
        /\ UNCHANGED <<containers, plane>>

NextServer ==
    \/ \E n \in NameArgs, l \in NewLayers \cup {NoLayer}, o \in SaveOutcomes :
            CmdPut(n, l, o)
    \/ \E args \in RmiArgs : \E os \in [1..Len(args) -> SaveOutcomes] :
            CmdRmi(args, FALSE, os)
    \/ \E args \in RmiPatterns : \E os \in [1..Len(args) -> SaveOutcomes] :
            CmdRmi(args, TRUE, os)
    \/ \E n \in NameArgs, id \in ContainerIds, co \in CreateOutcomes, ok \in BOOLEAN :
            CmdRunDetached(n, id, co, ok)
    \/ \E c \in ContainerIds \cup {""}, n \in NameArgs, ok \in BOOLEAN,
          l \in NewLayers \cup {NoLayer}, o \in SaveOutcomes :
            CmdCommit(c, n, ok, l, o)
    \/ \E a, b \in Names, o \in SaveOutcomes : Rename(a, b, o)

SpecServer == Init /\ [][NextServer]_vars

\* ------------------------------------------------------------- containers
\* The verbs of the server that work on the containers of the runtime, each
\* taken whole. A container is named by its id; args are the positional
\* arguments of the request.
ContainerArgs == {<<>>, <<"c1">>, <<"c2">>, <<"c1", "c2">>, <<"c2", "c1">>}

ContainerFrame ==
    UNCHANGED <<ByName, ById, file, now, nops, saveFails, procs, crashed, plane>>

\* The loop of CmdRm: [containers, ret, printed], printed being the names
\* for which "Error destroying container" was written to the client. A name
\* that is not found ends the verb with an error; a Destroy that fails is
\* printed and the loop goes on.
RECURSIVE RmLoop(_, _)
RmLoop(cs, args) ==
    IF args = <<>> THEN [containers |-> cs, ret |-> "ok", printed |-> <<>>]
    ELSE LET name == Head(args)
             d == Destroy(cs, name)
             rest == RmLoop(d.containers, Tail(args))
         IN  IF name \notin DOMAIN cs
             THEN [containers |-> cs, ret |-> "err", printed |-> <<>>]
             ELSE [rest EXCEPT !.printed = (IF d.err THEN <<name>> ELSE <<>>) \o @]

\* CmdRm: 'rm CONTAINER...'
CmdRm(args) ==
    LET r == RmLoop(containers, args)
    IN  /\ containers' = r.containers
        /\ last' = Call("rm", "", args, r.ret, r.printed, FALSE)
        /\ ContainerFrame

\* The loop of CmdKill, as that of CmdRm with Container.Kill.
RECURSIVE KillLoop(_, _)
KillLoop(cs, args) ==
    IF args = <<>> THEN [containers |-> cs, ret |-> "ok", printed |-> <<>>]
    ELSE LET name == Head(args)
             k == Kill(cs, name)
             rest == KillLoop(k.containers, Tail(args))
         IN  IF name \notin DOMAIN cs
             THEN [containers |-> cs, ret |-> "err", printed |-> <<>>]
             ELSE [rest EXCEPT !.printed = (IF k.err THEN <<name>> ELSE <<>>) \o @]

\* CmdKill: 'kill CONTAINER...'
CmdKill(args) ==
    LET r == KillLoop(containers, args)
    IN  /\ containers' = r.containers
        /\ last' = Call("kill", "", args, r.ret, r.printed, FALSE)
        /\ ContainerFrame

\* The loop of CmdStop: [containers, ret]. It ends with an error at the
\* first name that is not found or whose Stop fails.
RECURSIVE StopLoop(_, _)
StopLoop(cs, args) ==
    IF args = <<>> THEN [containers |-> cs, ret |-> "ok"]
    ELSE LET name == Head(args)
             s == Stop(cs, name)
         IN  IF name \notin DOMAIN cs THEN [containers |-> cs, ret |-> "err"]
             ELSE IF s.err THEN [containers |-> s.containers, ret |-> "err"]
             ELSE StopLoop(s.containers, Tail(args))

\* CmdStop: 'stop NAME...'; with no name the usage is printed and the verb
\* returns nil.
CmdStop(args) ==
    LET r == StopLoop(containers, args)
    IN  /\ IF Len(args) < 1
           THEN /\ containers' = containers
                /\ last' = Call("stop", "", args, "usage", Nil, FALSE)
           ELSE /\ containers' = r.containers
                /\ last' = Call("stop", Head(args), args, r.ret, Nil, FALSE)
        /\ ContainerFrame

\* The loop of CmdStart, oks telling for each argument whether the launcher
\* works.
RECURSIVE StartLoop(_, _, _)
StartLoop(cs, args, oks) ==
    IF args = <<>> THEN [containers |-> cs, ret |-> "ok"]
    ELSE LET name == Head(args)
             s == Start(cs, name, Head(oks))
         IN  IF name \notin DOMAIN cs THEN [containers |-> cs, ret |-> "err"]
             ELSE IF s.err THEN [containers |-> s.containers, ret |-> "err"]
             ELSE StartLoop(s.containers, Tail(args), Tail(oks))

\* CmdStart: 'start NAME...'
CmdStart(args, oks) ==
    LET r == StartLoop(containers, args, oks)
    IN  /\ Len(oks) = Len(args)
        /\ IF Len(args) < 1
           THEN /\ containers' = containers
                /\ last' = Call("start", "", args, "usage", Nil, FALSE)
           ELSE /\ containers' = r.containers
                /\ last' = Call("start", Head(args), args, r.ret, Nil, FALSE)
        /\ ContainerFrame

\* The loop of CmdWait: "err" at the first name that is not found, "blocked"
\* while a named container has not exited (Container.Wait has not returned).
RECURSIVE WaitLoop(_, _)
WaitLoop(cs, args) ==
    IF args = <<>> THEN "ok"
    ELSE LET name == Head(args)
         IN  IF name \notin DOMAIN cs THEN "err"
             ELSE IF cs[name].state # "exited" THEN "blocked"
             ELSE WaitLoop(cs, Tail(args))

\* CmdWait: 'wait NAME...', taken when it returns.
CmdWait(args) ==
    LET ret == WaitLoop(containers, args)
    IN  /\ Len(args) >= 1 => ret # "blocked"
        /\ last' = Call("wait", IF Len(args) < 1 THEN "" ELSE Head(args), args,
                        IF Len(args) < 1 THEN "usage" ELSE ret, Nil, FALSE)
        /\ containers' = containers
        /\ ContainerFrame

\* The process of a running container exits by itself.
ProcessExit(c) ==
    /\ c \in DOMAIN containers /\ containers[c].state = "running"
    /\ containers' = [containers EXCEPT ![c].state = "exited"]
    /\ UNCHANGED last
    /\ ContainerFrame

\* An image is put, containers are run from it and committed, and the verbs
\* on containers are called in any order while processes exit.
NextContainers ==
    \/ \E n \in {"a", ""} : CmdPut(n, LayerX, "ok")
    \/ \E n \in {"a", ""}, id \in ContainerIds, co \in CreateOutcomes, ok \in BOOLEAN :
            CmdRunDetached(n, id, co, ok)
    \/ \E c \in ContainerIds \cup {""}, n \in {"b", ""} :
            CmdCommit(c, n, TRUE, LayerY, "ok")
    \/ \E args \in ContainerArgs : CmdRm(args)
    \/ \E args \in ContainerArgs : CmdKill(args)
    \/ \E args \in ContainerArgs : CmdStop(args)
    \/ \E args \in ContainerArgs : \E oks \in [1..Len(args) -> BOOLEAN] :
            CmdStart(args, oks)
    \/ \E args \in ContainerArgs : CmdWait(args)
    \/ \E c \in ContainerIds : ProcessExit(c)

SpecContainers == Init /\ [][NextContainers]_vars

\* ---------------------------------------------------------------- history
\* History.Del called on the history of name "a", for every history of up
\* to MaxHistory versions of two images, newest first.
HistoryOfLayers(ls) ==
    [i \in 1..Len(ls) |-> NewImage("a", <<ls[i]>>, "", Len(ls) + 1 - i)]

Histories ==
    {HistoryOfLayers(ls) :
        ls \in UNION {[1..n -> NewLayers] : n \in 0..MaxHistory}}

DelIds == {"a:x", "a:y", "a:z"}

InitHistory ==
    /\ \E h \in Histories : ByName = Put(EmptyMap, "a", h)
    /\ ById = EmptyMap
    /\ file = Missing
    /\ now = 1
    /\ last = Call("new", "", "", "ok", Nil, FALSE)
    /\ nops = 0
    /\ saveFails = 0
    /\ procs = [c \in Clients |-> Idle(0, "none")]
    /\ crashed = FALSE
    /\ containers = EmptyMap
    /\ req = NoRequest
    /\ tasks = NoTasks
    /\ conn = [open |-> TRUE, stdin |-> "open"]
    /\ pipes = [stdin |-> "open", stdout |-> "empty", stderr |-> "empty"]

\* history.Del(id) on the history of "a"; a panic ends the program.
DelCall(id) ==
    LET r == HistoryDel(ByName["a"], id)
    IN  /\ ~crashed
        /\ ByName' = [ByName EXCEPT !["a"] = r.history]
        /\ last' = Call("del", id, ByName["a"], r.ret, r.history, FALSE)
        /\ crashed' = (r.ret = "panic")
        /\ UNCHANGED <<ById, file, now, nops, saveFails, procs, containers, plane>>

NextHistory == \E id \in DelIds : DelCall(id)

SpecHistory == InitHistory /\ [][NextHistory]_vars

\* ---------------------------------------------------------------- streams
\* One attach or run request taken step by step: the handler opens the pipes
\* of the container and starts a goroutine per stream that io.Copy's it; the
\* client sends, half-closes or disconnects; the container writes and exits.
\* For a run request i is the flag -i and o and e are the flag -a.
Active(s) == tasks[s] \in {"reading", "writing"}
Flag(s) == CASE s = "stdin" -> req.i [] s = "stdout" -> req.o [] s = "stderr" -> req.e
NextPc(s) == CASE s = "stdin" -> "stdout" [] s = "stdout" -> "stderr"
               [] s = "stderr" -> "wait"
Return(ret) == [req EXCEPT !.pc = "returned", !.ret = ret]
Attached == req.container \in DOMAIN containers
Running == Attached /\ containers[req.container].state = "running"
Exited == Attached /\ containers[req.container].state = "exited"

IndexFrame == UNCHANGED <<ByName, ById, file, now, last, nops, saveFails, procs, crashed>>

\* CmdAttach up to the lookup of the container.
AttachBegin(name, i, o, e) ==
    /\ req.pc = "idle"
    /\ req' = IF name \in DOMAIN containers
              THEN [verb |-> "attach", pc |-> "stdin", ret |-> "none",
                    container |-> name, i |-> i, o |-> o, e |-> e,
                    opened |-> {}, starts |-> 0]
              ELSE [verb |-> "attach", pc |-> "returned", ret |-> "err",
                    container |-> "", i |-> i, o |-> o, e |-> e,
                    opened |-> {}, starts |-> 0]
    /\ UNCHANGED <<containers, tasks, conn, pipes>>
    /\ IndexFrame

\* CmdAttach for stream s: when its flag is set, open the pipe of the
\* container and start the goroutine that copies it; return the error when
\* the pipe cannot be opened.
AttachPipe(s, ok) ==
    /\ req.verb = "attach" /\ req.pc = s
    /\ IF ~Flag(s)
       THEN /\ ok
            /\ req' = [req EXCEPT !.pc = NextPc(s)]
            /\ tasks' = tasks
       ELSE IF ok
       THEN /\ req' = [req EXCEPT !.pc = NextPc(s), !.opened = @ \cup {s}]
            /\ tasks' = [tasks EXCEPT ![s] = "reading"]
       ELSE /\ req' = Return("err")
            /\ tasks' = tasks
    /\ UNCHANGED <<containers, conn, pipes>>
    /\ IndexFrame

\* CmdAttach: wg.Wait() and return.
AttachWait ==
    /\ req.verb = "attach" /\ req.pc = "wait"
    /\ \A s \in Streams : ~Active(s)
    /\ req' = Return("ok")
    /\ UNCHANGED <<containers, tasks, conn, pipes>>
    /\ IndexFrame

\* The end of the goroutine of stream s. The goroutine of run that copies
\* stdin closes the stdin of the container; those of attach only leave the
\* wait group.
Ended(s, result) ==
    /\ tasks' = [tasks EXCEPT ![s] = result]
    /\ pipes' = IF s = "stdin" /\ req.verb = "run"
                THEN [pipes EXCEPT !.stdin = "closed"] ELSE pipes

\* io.Copy reads from its source: the connection for stdin, the pipe of the
\* container for stdout and stderr. With nothing to read it blocks.
CopyRead(s) ==
    /\ tasks[s] = "reading"
    /\ IF s = "stdin"
       THEN \/ /\ conn.open /\ conn.stdin = "data"
               /\ tasks' = [tasks EXCEPT ![s] = "writing"]
               /\ conn' = [conn EXCEPT !.stdin = "open"]
               /\ pipes' = pipes
            \/ /\ conn.open /\ conn.stdin = "eof"
               /\ Ended(s, "done")
               /\ conn' = conn
            \/ /\ ~conn.open
               /\ Ended(s, "failed")
               /\ conn' = conn
       ELSE \/ /\ pipes[s] = "data"
               /\ tasks' = [tasks EXCEPT ![s] = "writing"]
               /\ pipes' = [pipes EXCEPT ![s] = "empty"]
               /\ conn' = conn
            \/ /\ pipes[s] = "empty" /\ Exited
               /\ Ended(s, "done")
               /\ conn' = conn
    /\ UNCHANGED <<containers, req>>
    /\ IndexFrame

\* io.Copy writes what it read to its destination: the stdin of the
\* container, or the connection; a write to a closed one is an error.
CopyWrite(s) ==
    /\ tasks[s] = "writing"
    /\ IF s = "stdin"
       THEN IF pipes.stdin = "open" /\ ~Exited
            THEN tasks' = [tasks EXCEPT ![s] = "reading"] /\ pipes' = pipes
            ELSE Ended(s, "failed")
       ELSE IF conn.open
            THEN tasks' = [tasks EXCEPT ![s] = "reading"] /\ pipes' = pipes
            ELSE Ended(s, "failed")
    /\ UNCHANGED <<containers, req, conn>>
    /\ IndexFrame

\* The client sends bytes, half-closes its stdin, or closes the connection.
ClientSend ==
    /\ req.verb # "none" /\ conn.open /\ conn.stdin = "open"
    /\ conn' = [conn EXCEPT !.stdin = "data"]
    /\ UNCHANGED <<containers, req, tasks, pipes>>
    /\ IndexFrame

ClientEOF ==
    /\ req.verb # "none" /\ conn.open /\ conn.stdin = "open"
    /\ conn' = [conn EXCEPT !.stdin = "eof"]
    /\ UNCHANGED <<containers, req, tasks, pipes>>
    /\ IndexFrame

Disconnect ==
    /\ req.verb # "none" /\ conn.open
    /\ conn' = [conn EXCEPT !.open = FALSE]
    /\ UNCHANGED <<containers, req, tasks, pipes>>
    /\ IndexFrame

\* The process of the container writes to its stdout or stderr, or exits.
CtrWrite(s) ==
    /\ Running /\ pipes[s] = "empty"
    /\ pipes' = [pipes EXCEPT ![s] = "data"]
    /\ UNCHANGED <<containers, req, tasks, conn>>
    /\ IndexFrame

CtrExit ==
    /\ Running
    /\ containers' = [containers EXCEPT ![req.container].state = "exited"]
    /\ UNCHANGED <<req, tasks, conn, pipes>>
    /\ IndexFrame

\* CmdRun up to the creation of the container: with no command line the
\* flags -i, -t and -a are set; the image is looked up (the empty name
\* stands for "base") and the container is created.
RunBegin(name, id, cmdline, i, a, co) ==
    LET n == IF name = "" THEN "base" ELSE name
        fr == Find(Index, file, n)
        cc == CreateContainer(containers, fr.img, id, co)
        flags == [verb |-> "run", pc |-> "run_stdin", ret |-> "none",
                  container |-> id, i |-> (i \/ ~cmdline),
                  o |-> (a \/ ~cmdline), e |-> (a \/ ~cmdline),
                  opened |-> {}, starts |-> 0]
        failed == [flags EXCEPT !.pc = "returned", !.ret = "err", !.container = ""]
    IN  /\ req.pc = "idle"
        /\ id \notin DOMAIN containers
        /\ IndexBecomes([idx |-> fr.idx, file |-> file, fails |-> 0], <<>>)
        /\ IF fr.img = Nil
           THEN /\ containers' = containers /\ req' = failed
                /\ last' = Call("run", n, "", "err", Nil, FALSE)
           ELSE IF cc.err
           THEN /\ containers' = cc.containers /\ req' = failed
                /\ last' = Call("run", n, "", "err", Nil, FALSE)
           ELSE /\ containers' = cc.containers /\ req' = flags
                /\ last' = Call("run", n, id, "none", fr.img, FALSE)
        /\ UNCHANGED <<now, tasks, conn, pipes>>

\* CmdRun: under -i open the stdin of the container and, under -a, start the
\* goroutine that copies the client's stdin to it and then closes it.
RunStdin(ok) ==
    /\ req.verb = "run" /\ req.pc = "run_stdin"
    /\ IF ~req.i
       THEN /\ ok
            /\ req' = [req EXCEPT !.pc = "run_pipes"] /\ tasks' = tasks
       ELSE IF ~ok
       THEN req' = Return("err") /\ tasks' = tasks
       ELSE /\ req' = [req EXCEPT !.pc = "run_pipes", !.opened = @ \cup {"stdin"}]
            /\ tasks' = IF req.o THEN [tasks EXCEPT !["stdin"] = "reading"] ELSE tasks
    /\ UNCHANGED <<containers, conn, pipes>>
    /\ IndexFrame

\* CmdRun under -a that goes on to Start without the pipes of the container.
RunPipes_NotOpened(okErr, okOut) ==
    /\ req.verb = "run" /\ req.pc = "run_pipes"
    /\ IF ~req.o
       THEN okErr /\ okOut /\ req' = [req EXCEPT !.pc = "run_start"]
       ELSE IF ~okErr \/ ~okOut
       THEN req' = Return("err")
       ELSE req' = [req EXCEPT !.pc = "run_start"]
    /\ UNCHANGED <<containers, tasks, conn, pipes>>
    /\ IndexFrame

\* CmdRun under -a: open the stderr, then the stdout of the container;
\* opened are the pipes the handler holds.
RunPipes(okErr, okOut) ==
    /\ req.verb = "run" /\ req.pc = "run_pipes"
    /\ IF ~req.o
       THEN okErr /\ okOut /\ req' = [req EXCEPT !.pc = "run_start"]
       ELSE IF ~okErr
       THEN okOut /\ req' = Return("err")
       ELSE IF ~okOut
       THEN req' = [Return("err") EXCEPT !.opened = @ \cup {"stderr"}]
       ELSE req' = [req EXCEPT !.pc = "run_start",
                               !.opened = @ \cup {"stderr", "stdout"}]
    /\ UNCHANGED <<containers, tasks, conn, pipes>>
    /\ IndexFrame

\* CmdRun: container.Start(); under -a the goroutines that copy stdout and
\* stderr are started, otherwise the id is printed and the verb returns.
RunStart(ok) ==
    /\ req.verb = "run" /\ req.pc = "run_start"
    /\ IF ~ok
       THEN /\ req' = [Return("err") EXCEPT !.starts = @ + 1]
            /\ UNCHANGED <<containers, tasks>>
       ELSE /\ containers' = [containers EXCEPT ![req.container].state = "running"]
            /\ IF req.o
               THEN /\ tasks' = [tasks EXCEPT !["stdout"] = "reading",
                                              !["stderr"] = "reading"]
                    /\ req' = [req EXCEPT !.pc = "run_out", !.starts = @ + 1]
               ELSE /\ tasks' = tasks
                    /\ req' = [Return("ok") EXCEPT !.starts = @ + 1]
    /\ UNCHANGED <<conn, pipes>>
    /\ IndexFrame

\* CmdRun: receive the result of the copy of stdout, then that of stderr,
\* and return the first error.
RunRecvOut ==
    /\ req.verb = "run" /\ req.pc = "run_out"
    /\ tasks["stdout"] \in {"done", "failed"}
    /\ req' = [req EXCEPT !.pc = "run_err"]
    /\ UNCHANGED <<containers, tasks, conn, pipes>>
    /\ IndexFrame

RunRecvErr ==
    /\ req.verb = "run" /\ req.pc = "run_err"
    /\ tasks["stderr"] \in {"done", "failed"}
    /\ req' = IF "failed" \in {tasks["stdout"], tasks["stderr"]}
              THEN Return("err") ELSE [req EXCEPT !.pc = "run_wait"]
    /\ UNCHANGED <<containers, tasks, conn, pipes>>
    /\ IndexFrame

\* CmdRun: container.Wait() returns when the process has exited.
RunWait ==
    /\ req.verb = "run" /\ req.pc = "run_wait"
    /\ Exited
    /\ req' = Return("ok")
    /\ UNCHANGED <<containers, tasks, conn, pipes>>
    /\ IndexFrame

\* What the handler and its goroutines do.
ServeSteps ==
    \/ \E s \in Streams, ok \in BOOLEAN : AttachPipe(s, ok)
    \/ AttachWait
    \/ \E ok \in BOOLEAN : RunStdin(ok)
    \/ \E okErr, okOut \in BOOLEAN : RunPipes(okErr, okOut)
    \/ \E ok \in BOOLEAN : RunStart(ok)
    \/ RunRecvOut
    \/ RunRecvErr
    \/ RunWait
    \/ \E s \in Streams : CopyRead(s)
    \/ \E s \in Streams : CopyWrite(s)

\* An image is put and containers are run; then one attach or run request is
\* served while the client and the container do as they please.
NextStreams ==
    \/ req.pc = "idle" /\ CmdPut("a", LayerX, "ok")
    \/ req.pc = "idle" /\ \E ok \in BOOLEAN : CmdRunDetached("a", "c1", "ok", ok)
    \/ \E c \in ContainerIds, i, o, e \in BOOLEAN : AttachBegin(c, i, o, e)
    \/ \E n \in {"a", ""}, cmdline, i, a \in BOOLEAN, co \in {"ok", "createfail"} :
            RunBegin(n, "c2", cmdline, i, a, co)
    \/ ServeSteps
    \/ ClientSend
    \/ ClientEOF
    \/ Disconnect
    \/ \E s \in {"stdout", "stderr"} : CtrWrite(s)
    \/ CtrExit

SpecStreams == Init /\ [][NextStreams]_vars

\* The handler and each goroutine keep running while they can take a step;
\* nothing is assumed of the client or of the container.
FairStreams ==
    /\ WF_vars(AttachWait)
    /\ WF_vars(\E s \in Streams, ok \in BOOLEAN : AttachPipe(s, ok))
    /\ WF_vars(\E ok \in BOOLEAN : RunStdin(ok))
    /\ WF_vars(\E okErr, okOut \in BOOLEAN : RunPipes(okErr, okOut))
    /\ WF_vars(\E ok \in BOOLEAN : RunStart(ok))
    /\ WF_vars(RunRecvOut)
    /\ WF_vars(RunRecvErr)
    /\ WF_vars(RunWait)
    /\ \A s \in Streams : WF_vars(CopyRead(s)) /\ WF_vars(CopyWrite(s))

SpecStreamsFair == SpecStreams /\ FairStreams

\* ---------------------------------------------------------------- claims
\* What a reload makes of the index now, and the document read on its own.
Loaded == Load(Index, file)
OnDisk == Load(NewIndex, file).idx
Entries(h) == {h[k] : k \in 1..Len(h)}
HistoryOf(idx, name) ==
    IF name \in DOMAIN idx.ByName THEN idx.ByName[name] ELSE <<>>

\* C1. Index bijection: every image of every history is the value of ById
\* under its id (same layers, parent and created), and every image of ById
\* appears in some history.
C1_IndexBijection ==
    /\ \A n \in DOMAIN ByName : \A i \in Entries(ByName[n]) :
            i.Id \in DOMAIN ById /\ ById[i.Id] = i
    /\ \A id \in DOMAIN ById : \E n \in DOMAIN ByName : ById[id] \in Entries(ByName[n])

\* A client is inside its section from the return of its load to the
\* return of its save.
InSection(c) == procs[c].pc \in {"loaded", "mutated", "marshalled", "opened"}

\* The call that client c has finished, run on its own under a save that
\* succeeds.
RunAlone(st, c) ==
    LET p == procs[c]
        r == CASE p.op = "create" -> IndexAdd(st.idx, st.file, p.name, p.arg, "ok")
               [] p.op = "delete" -> IndexDelete(st.idx, st.file, p.name, "ok")
               [] p.op = "rename" -> IndexRename(st.idx, st.file, p.name, p.arg, "ok")
    IN  [idx |-> r.idx, file |-> r.file]

Fresh == [idx |-> NewIndex, file |-> Missing]

\* Each client has made one call, and it was saved and returned success.
EachSavedOne ==
    /\ ~crashed
    /\ \A c \in Clients :
        procs[c].pc = "idle" /\ procs[c].calls = 1
        /\ procs[c].ret = "ok" /\ procs[c].op # "none"

C2_Exclusive == \A c, d \in Clients : (InSection(c) /\ InSection(d)) => c = d

C2_Serial ==
    EachSavedOne =>
        [idx |-> Index, file |-> file] \in
            {RunAlone(RunAlone(Fresh, 1), 2), RunAlone(RunAlone(Fresh, 2), 1)}

\* C2. Mutating operations of different connections each hold an exclusive
\* section from load to save: no two clients are inside at once, and when
\* each has made one successful call the index in memory and on disk is
\* what the two calls give when run one after the other, in some order.
C2_MutationsSerialized == C2_Exclusive /\ C2_Serial

\* C3. Save is atomic with respect to crashes: after a crash, with no write
\* of a later call under way, the file is missing (as before the first
\* save) or a complete document, never partly written.
C3_SaveAtomic ==
    (crashed /\ \A c \in Clients : procs[c].pc # "opened") =>
        file.kind \in {"missing", "doc"}

\* C4. The document on disk is the source of truth for reads: a find or a
\* names that reloads a document answers from exactly the entries of that
\* document (neither call writes the file, so it is the file of this state).
C4_ReadsFromDisk ==
    file.kind = "doc" =>
        /\ last.op = "find" => last.out = Lookup(OnDisk, last.name)
        /\ last.op = "names" => last.out = SortStrings(DOMAIN OnDisk.ByName)

\* C5. A missing file is an empty index: with no file, find returns absent
\* for every argument and names returns the empty list.
C5_MissingFileIsEmpty ==
    file.kind = "missing" =>
        /\ last.op = "find" => last.out = Nil
        /\ last.op = "names" => last.out = <<>>

\* What C6 promises of a successful add of an image that was not the newest.
AddedOnTop(idx, f, name, image) ==
    /\ name \in DOMAIN idx.ByName
    /\ idx.ByName[name][1] = image
    /\ Find(idx, f, name).img = image
    /\ image.Id \in DOMAIN idx.ById
    /\ idx.ById[image.Id] = image

\* C6 as stated. add prepends: after a successful add of an image whose id
\* is not that of the newest image of the name, the image is at position 0
\* of the history, find(name) returns it and ById holds it, whatever its
\* created time.
C6_AddPrepends ==
    (last.op = "add" /\ last.ret = "ok" /\ ~last.dup) =>
        AddedOnTop(Index, file, last.name, last.arg)

\* C6 as amended. The same, for an image whose created time is later than
\* that of every entry the reloaded history of the name held before the add.
C6_AddPrependsNewest ==
    [][(/\ last'.op = "add" /\ last'.ret = "ok" /\ ~last'.dup
        /\ \A e \in Entries(HistoryOf(Loaded.idx, last'.name)) :
                e.Created < last'.arg.Created)
       => AddedOnTop(Index', file', last'.name, last'.arg)]_vars

C6_Witness ==
    /\ last.op = "add" /\ last.ret = "ok" /\ ~last.dup
    /\ Len(ByName[last.name]) >= 2
    /\ ByName[last.name][1] = last.arg
    /\ ByName[last.name][2].Created < last.arg.Created

\* The id of the image of a call that took the duplicate-top return.
DupId(call) == IF call.op = "add" THEN call.arg.Id ELSE call.out.Id

\* C7. A duplicate-top add is a silent no-op: it returns success and leaves
\* the maps (as reloaded) and the file unchanged; so a create or a copy that
\* ends in it leaves exactly one entry of that id in the history.
C7_DuplicateTopNoOp ==
    [][last'.dup =>
        /\ last'.ret = "ok"
        /\ last'.op \in {"add", "create"} => (Index' = Loaded.idx /\ file' = file)
        /\ Cardinality({k \in 1..Len(ByName'[last'.name]) :
                            ByName'[last'.name][k].Id = DupId(last')}) = 1]_vars

\* C8. Rename fix-up: after a successful rename(a, b), find(a) is absent, the
\* history of b is the history a had, in order, each image under the id made
\* from b and its layers; find of that id returns that image and the old id
\* is no key of ById.
C8_RenameFixUp ==
    [][(last'.op = "rename" /\ last'.ret = "ok") =>
        LET a == last'.name
            b == last'.arg
            old == HistoryOf(Loaded.idx, a)
            new == HistoryOf(Index', b)
        IN  /\ Find(Index', file', a).img = Nil
            /\ Len(new) = Len(old)
            /\ \A k \in 1..Len(old) :
                /\ new[k] = [old[k] EXCEPT !.Id = generateImageId(b, old[k].Layers)]
                /\ Find(Index', file', new[k].Id).img = new[k]
                /\ old[k].Id \notin DOMAIN ById']_vars

\* The hash C9 names: the base name of a single layer, else the digest of
\* the concatenated base names.
HashOf(layers) ==
    IF Len(layers) = 1 THEN Base(layers[1]) ELSE ComputeId(ConcatBases(layers))

IdPure(idx) ==
    /\ \A n \in DOMAIN idx.ByName : \A i \in Entries(idx.ByName[n]) :
            /\ i.Id = n \o ":" \o HashOf(i.Layers)
            /\ i.Id \in DOMAIN idx.ById
            /\ idx.ById[i.Id].Id = i.Id
    /\ \A id \in DOMAIN idx.ById : idx.ById[id].Id = id

\* C9. ID purity: every image filed under name n has the id n:hash, hash made
\* from its layers, and ById files images under their own id; in memory and
\* in what a reload yields.
C9_IdPurity == IdPure(Index) /\ IdPure(Loaded.idx)

C9_Witness ==
    /\ last.op = "rename" /\ last.ret = "ok"
    /\ \E i \in Entries(HistoryOf(Index, last.arg)) : Len(i.Layers) > 1
    /\ \E i \in Entries(HistoryOf(Index, last.arg)) : Len(i.Layers) = 1

Ordered(h) == \A k \in 1..(Len(h) - 1) : h[k].Created >= h[k + 1].Created
HistoryOrdered(idx) == \A n \in DOMAIN idx.ByName : Ordered(idx.ByName[n])

\* C10. History order: every history, in memory and as reloaded, is in
\* descending order of created, and find(name) returns an image whose
\* created time is maximal among the versions of the name.
C10_HistoryOrder ==
    /\ HistoryOrdered(Index)
    /\ HistoryOrdered(Loaded.idx)
    /\ ~Loaded.err =>
         \A n \in DOMAIN Loaded.idx.ByName :
            \A e \in Entries(Loaded.idx.ByName[n]) :
                Find(Index, file, n).img.Created >= e.Created

C10_Witness ==
    /\ last.op = "add" /\ last.ret = "ok" /\ ~last.dup
    /\ Len(ByName[last.name]) >= 2
    /\ ByName[last.name][1].Created > last.arg.Created
    /\ ByName[last.name][2] = last.arg
    /\ Find(Index, file, last.name).img = ByName[last.name][1]

NonEmptyHistories(idx) == \A n \in DOMAIN idx.ByName : Len(idx.ByName[n]) >= 1

\* C11. Every name registered in ByName has a history that is not empty, in
\* memory and in what a reload yields, after every sequence of index calls;
\* so no add reads element 0 of an empty history.
C11_NonEmptyHistories ==
    /\ NonEmptyHistories(Index)
    /\ NonEmptyHistories(Loaded.idx)
    /\ last.ret # "panic"

C11_Witness ==
    /\ last.op = "delete" /\ last.ret = "ok"
    /\ last.name \notin DOMAIN ByName
    /\ \E n \in DOMAIN ByName : Len(ByName[n]) >= 2

\* Two spellings of the path of the one index file.
Paths == {IndexPath, "./index.json"}

CopyReturns ==
    (/\ last'.op = "copy" /\ last'.name # "" /\ saveFails' = saveFails
     /\ Find(Index, file, last'.arg).img # Nil)
    => last'.ret = "ok"

\* The image a successful copy returns: the layers of the source, the id of
\* the source as parent, the id made from dstName.
CopyOf(dst, src, dstName) ==
    /\ dst.Layers = src.Layers
    /\ dst.Parent = src.Id
    /\ dst.Id = generateImageId(dstName, src.Layers)

\* C13 as stated. Copy sharing: copy(src, dstName) returns an image with the
\* layers of the source, its id as parent and an id made from dstName;
\* afterwards find(dstName) returns that image, and the source image and the
\* history it is in are as before.
C13_CopySharing ==
    [][/\ CopyReturns
       /\ (last'.op = "copy" /\ last'.ret = "ok") =>
            LET src == Lookup(Loaded.idx, last'.arg)
            IN  /\ CopyOf(last'.out, src, last'.name)
                /\ Find(Index', file', last'.name).img = last'.out
                /\ Find(Index', file', src.Id).img = Find(Index, file, src.Id).img
                /\ \A n \in DOMAIN Loaded.idx.ByName :
                        src \in Entries(Loaded.idx.ByName[n])
                            => HistoryOf(Index', n) = Loaded.idx.ByName[n]]_vars

\* C13 as amended. The returned image is as stated. find(dstName) returns an
\* image of the returned id: the returned image itself when the newest image
\* of dstName did not have that id and no entry of dstName is as new as the
\* copy; when the newest image of dstName had that id the index is as it
\* was. The history of every other name is as before, and so is the image
\* filed under the id of the source when that is not the returned id.
C13_CopySharingFresh ==
    [][/\ CopyReturns
       /\ (last'.op = "copy" /\ last'.ret = "ok") =>
            LET src == Lookup(Loaded.idx, last'.arg)
                dst == last'.out
                before == HistoryOf(Loaded.idx, last'.name)
            IN  /\ CopyOf(dst, src, last'.name)
                /\ last'.dup => Index' = Loaded.idx
                /\ (~last'.dup /\ \A e \in Entries(before) : e.Created < dst.Created)
                        => Find(Index', file', last'.name).img = dst
                /\ (\A e \in Entries(before) : e.Created < dst.Created)
                        => Find(Index', file', last'.name).img.Id = dst.Id
                /\ src.Id # dst.Id =>
                        Find(Index', file', src.Id).img = Find(Index, file, src.Id).img
                /\ \A n \in DOMAIN Loaded.idx.ByName \ {last'.name} :
                        HistoryOf(Index', n) = Loaded.idx.ByName[n]]_vars

C13_Witness ==
    /\ last.op = "copy" /\ last.ret = "ok" /\ ~last.dup
    /\ last.arg \in Names /\ last.arg # last.name
    /\ Len(last.out.Layers) = 2
    /\ last.out.Parent = generateImageId(last.arg, last.out.Layers)
    /\ Len(HistoryOf(Index, last.name)) >= 2
    /\ Find(Index, file, last.name).img = last.out

\* The parent a put or a commit hands to Store.Import, and the new layer.
ImportParent(call) ==
    IF call.op = "put" THEN Nil
    ELSE Find(Index, file, containers[call.arg.container].image).img
ImportLayer(call) == IF call.op = "put" THEN call.arg ELSE call.arg.layer

\* C14. Import chaining: the image a successful import returns has as layers
\* the new layer followed by the layers of the parent in their order, and
\* the id of the parent as parent; with no parent it has the new layer alone
\* and an empty parent. The layers of the parent image are as before.
C14_ImportChaining ==
    [][(last'.op \in {"put", "commit"} /\ last'.ret = "ok") =>
        LET parent == ImportParent(last')
            layer == ImportLayer(last')
            img == last'.out
        IN  /\ parent = Nil => (img.Layers = <<layer>> /\ img.Parent = "")
            /\ parent # Nil =>
                /\ img.Layers = <<layer>> \o parent.Layers
                /\ img.Parent = parent.Id
                /\ Find(Index', file', parent.Id).img.Layers = parent.Layers]_vars

C14_Witness ==
    /\ last.op = "commit" /\ last.ret = "ok"
    /\ last.out.Parent = containers[last.arg.container].image
    /\ Len(last.out.Layers) = 2
    /\ last.out.Layers[1] = last.arg.layer
    /\ last.out.Layers[2] # last.arg.layer
    /\ last.out.Parent \in DOMAIN ById
    /\ ById[last.out.Parent].Layers = <<last.out.Layers[2]>>

\* C15. deleteMatch with a pattern that does not compile fails with an error
\* and leaves the index (as reloaded) and the index file as they were,
\* whatever the index holds, the empty index included.
C15_InvalidPatternFails ==
    [][(last'.op = "deleteMatch" /\ ~PatternCompiles(last'.arg)) =>
        /\ last'.ret = "err"
        /\ Index' = Loaded.idx
        /\ file' = file]_vars

\* C16. Empty names are always rejected: an add, create, copy, rename or
\* delete given the empty string as a name returns an error, and the empty
\* string is never a key of ByName.
C16_EmptyNamesRejected ==
    /\ "" \notin DOMAIN ByName
    /\ (last.op \in {"add", "create", "copy", "delete"} /\ last.name = "")
            => last.ret = "err"
    /\ (last.op = "copy" /\ last.arg = "") => last.ret = "err"
    /\ (last.op = "rename" /\ (last.name = "" \/ last.arg = ""))
            => last.ret = "err"

\* C17. Commit parentage: a successful commit of a container that run made
\* from image I returns an image whose parent is the id of I and whose layers
\* are the new layer followed by the layers of I, whatever was done to the
\* index between the run and the commit.
C17_CommitParentage ==
    [][(last'.op = "commit" /\ last'.ret = "ok") =>
        LET c == containers[last'.arg.container]
        IN  /\ last'.out.Parent = c.image
            /\ last'.out.Layers = <<last'.arg.layer>> \o c.layers]_vars

\* C18. attach propagates the end of stdin: when attach runs with -i and the
\* client's stdin reaches EOF while the container runs, the stdin of the
\* container is eventually closed (or the container has stopped by itself).
C18_StdinEOFPropagated ==
    (/\ req.verb = "attach" /\ req.i /\ tasks["stdin"] = "reading"
     /\ conn.open /\ conn.stdin = "eof" /\ Running)
    ~> (pipes.stdin = "closed" \/ ~Running)

\* The same of a run under -i and -a, whose goroutine closes the stdin.
RunStdinEOFPropagated ==
    (/\ req.verb = "run" /\ tasks["stdin"] = "reading"
     /\ conn.open /\ conn.stdin = "eof")
    ~> (pipes.stdin = "closed")

\* C19. attach returns exactly when all of its copy tasks have finished: on
\* every path on which CmdAttach has returned, the error paths included, no
\* copy task that the request started is still running.
C19_NoCopyAfterReturn ==
    (req.verb = "attach" /\ req.pc = "returned") => \A s \in Streams : ~Active(s)

\* The other half of C19: once every copy task that was started has
\* finished, CmdAttach returns.
AttachReturnsWhenDone ==
    (req.verb = "attach" /\ req.pc = "wait" /\ \A s \in Streams : ~Active(s))
    ~> (req.pc = "returned")

\* C20. Cancellation on disconnect: once the client's connection of an
\* attach or run request is closed, every copy task of the request
\* terminates and the verb returns, whatever the container does.
C20_DisconnectCancels ==
    (req.verb # "none" /\ ~conn.open)
    ~> (req.pc = "returned" /\ \A s \in Streams : ~Active(s))

\* CmdRun has returned and had started its container.
RunStarted ==
    /\ req.verb = "run" /\ req.pc = "returned"
    /\ Attached /\ containers[req.container].state # "created"

\* C21. Attached run ordering: a run under -a that started its container
\* returns only after the copies of stdout and of stderr have terminated and
\* the container has exited, on every path, the one where a copy ends with
\* an error included; a detached run returns once the container is started,
\* without waiting for its exit.
C21_AttachedRunOrdering ==
    (RunStarted /\ req.o) =>
        /\ ~Active("stdout") /\ ~Active("stderr")
        /\ Exited

\* The part of C21 that the code keeps: the copies of stdout and stderr have
\* ended when an attached run returns, and a detached run returns "ok" as
\* soon as its container is started.
RunCopiesEnded ==
    /\ (RunStarted /\ req.o) => (~Active("stdout") /\ ~Active("stderr"))
    /\ (RunStarted /\ ~req.o) => req.ret = "ok"

\* The last request had fewer positional arguments than its verb requires.
TooFewArgs ==
    \/ last.op \in {"wait", "stop", "start", "rm", "kill"} /\ Len(last.arg) < 1
    \/ last.op = "commit" /\ (last.arg.container = "" \/ last.name = "")
    \/ last.op = "put" /\ last.name = ""

\* C22. Wrong positional arity is an error for every verb: a request for
\* wait, stop, start, commit, put, rm or kill (the verbs modelled) with fewer
\* positional arguments than the verb requires returns an error, never
\* success.
C22_ArityIsAnError == TooFewArgs => last.ret = "err"

\* C23. rm and kill report failure: when destroying or killing one of the
\* named containers failed, the verb returns an error, never success.
C23_RmKillReportFailure ==
    (last.op \in {"rm", "kill"} /\ last.out # <<>>) => last.ret = "err"

\* The part of C24 about CreateContainer alone: a container whose user data
\* could not be set is not in the list of the runtime, and the container
\* that a successful run made has both keys set, "image" being the id of
\* the image it was made from.
CreateContainerRollsBack ==
    /\ \A c \in DOMAIN containers :
            containers[c].image # "" /\ containers[c].comment
    /\ (last.op = "run" /\ last.ret = "ok") =>
            /\ last.arg \in DOMAIN containers
            /\ containers[last.arg].image = last.out.Id

\* C24. Container creation rolls back: a container whose user data could
\* not be set has been destroyed and is not in the list of the runtime, a
\* container that was returned has both keys set with "image" the id of its
\* image, and when run returns an error no container created by that
\* request remains.
C24_CreationRollsBack ==
    /\ CreateContainerRollsBack
    /\ (last.op = "run" /\ last.ret = "err") =>
            (last.arg = "" \/ last.arg \notin DOMAIN containers)

\* C25. rmi retains no partial state: when an rmi request that names several
\* images returns an error (no save having failed during the request), none
\* of the images it names has been removed: the index and the index file
\* are as they were before the request.
C25_RmiAllOrNothing ==
    [][(/\ last'.op = "rmi" /\ last'.ret = "err"
        /\ Len(last'.arg) >= 2
        /\ saveFails' = saveFails) =>
            /\ \A i \in 1..Len(last'.arg) :
                    last'.arg[i] \in DOMAIN ByName => last'.arg[i] \in DOMAIN ByName'
            /\ file' = file]_vars

\* h without the first entry whose id is id.
RECURSIVE RemoveFirst(_, _)
RemoveFirst(h, id) ==
    IF h = <<>> THEN <<>>
    ELSE IF Head(h).Id = id THEN Tail(h)
    ELSE <<Head(h)>> \o RemoveFirst(Tail(h), id)

Occurrences(h, id) == Cardinality({k \in 1..Len(h) : h[k].Id = id})

\* C26. History del(id) removes exactly the first entry whose id equals id
\* and keeps every other entry in its original order, for every history,
\* those that hold several entries with the same id included, and never
\* fails; del of an id not present leaves the history unchanged.
C26_DelRemovesFirst ==
    last.op = "del" =>
        /\ last.ret = "ok"
        /\ last.out = RemoveFirst(last.arg, last.name)

\* The same of the histories in which the id occurs at most once.
DelRemovesOnly ==
    (last.op = "del" /\ Occurrences(last.arg, last.name) <= 1) =>
        /\ last.ret = "ok"
        /\ last.out = RemoveFirst(last.arg, last.name)

\* C27. No sequence of create, copy, rename and delete puts into the index
\* an image whose parent is its own id, and copy never returns one.
C27_NoSelfParent ==
    /\ \A n \in DOMAIN ByName : \A k \in 1..Len(ByName[n]) :
            ByName[n][k].Parent # ByName[n][k].Id
    /\ \A id \in DOMAIN ById : ById[id].Parent # ById[id].Id
    /\ (last.op = "copy" /\ last.ret = "ok") => last.out.Parent # last.out.Id

\* The first two conjuncts of C27 alone: what the index holds.
NoSelfParentIndexed ==
    /\ \A n \in DOMAIN ByName : \A k \in 1..Len(ByName[n]) :
            ByName[n][k].Parent # ByName[n][k].Id
    /\ \A id \in DOMAIN ById : ById[id].Parent # ById[id].Id

\* C28. In an attached run the stdout and stderr pipes of the container, and
\* the stdin pipe under -i, are obtained before the container is started,
\* and Start is called at most once in a request: whenever Start has been
\* called, and whenever the process has written output, the handler holds
\* the pipes the copy tasks read.
C28_PipesBeforeStart ==
    (req.verb = "run" /\ req.o) =>
        /\ req.starts <= 1
        /\ (req.starts >= 1 \/ pipes.stdout = "data" \/ pipes.stderr = "data") =>
                /\ {"stdout", "stderr"} \subseteq req.opened
                /\ req.i => "stdin" \in req.opened

C28_Witness ==
    /\ req.verb = "run" /\ req.o /\ req.i
    /\ req.starts = 1 /\ Running
    /\ pipes.stdout = "data"
    /\ tasks["stdout"] = "reading"
    /\ req.opened = Streams

====
